---- MODULE Spec2Model ----
(***************************************************************************)
(* reproca client: the remote call `Reproca.call_method` (src/reproca.ts)  *)
(* and the reactive binding `useMethodSignal` / `useMethod`                *)
(* (src/reproca_client/src/forReact/signalHooks.ts, and the preact copy).  *)
(*                                                                         *)
(* Two state machines share the module:                                    *)
(*   SpecCall  - one call of call_method after the other, each on a raw    *)
(*               outcome of JSON.stringify / fetch / response.json();      *)
(*   Spec      - one mounted hook: effect runs, refetch, the producer's    *)
(*               promise settling, the then-callback, retry timers,        *)
(*               deps changes and unmount.  The producer is call_method.   *)
(*   FairSpec  - Spec plus the event loop's guarantees: a queued           *)
(*               then-callback runs, a pending timer fires.                *)
(*                                                                         *)
(* Spec runs useMethodSignal and useMethod side by side on the same        *)
(* events: state, chains, calls belong to useMethodSignal and hstate,      *)
(* hchains, hcalls to useMethod.                                           *)
(***************************************************************************)
EXTENDS Integers, FiniteSets, Sequences, TLC

VARIABLES
    reload,     \* the hook's option {reload?: number}
    depsKind,   \* "list": deps is an array; "none": deps is undefined
    producer,   \* how the `method` argument behaves (see ProducerOutcomes)
    scope,      \* "new" (not mounted yet), "mounted", "torn" (unmounted)
    cycle,      \* number of re-runs of the effect so far: the identity of the
                \* deps value (with deps undefined, of the render)
    state,      \* the published state: useSignal(undefined) / useState(undefined)
    chains,     \* slot -> the invocation or retry timer living in it
    calls,      \* number of calls of method() so far (MaxCalls: that many or more)
    refetches,  \* number of calls of the returned fetch by the hook's user
    hstate,     \* useMethod: the state of useState(undefined)
    hchains,    \* useMethod: slot -> the invocation or retry timer living in it
    hcalls,     \* useMethod: number of calls of method() so far
    rpc         \* the call of call_method being followed (SpecCall)

vars == <<reload, depsKind, producer, scope, cycle, state, chains, calls, refetches,
          hstate, hchains, hcalls, rpc>>

hookVars == <<reload, depsKind, producer, scope, cycle, state, chains, calls, refetches,
              hstate, hchains, hcalls>>

----------------------------------------------------------------------------
(* Bounds *)

MaxLive == 2       \* invocations and timers alive at the same time

MaxCalls == 3      \* the call counter saturates here

MaxCycles == 1     \* deps changes

MaxRefetch == 1    \* manual refetch() calls

MaxStatus == 599   \* largest HTTP status a response carries

Slots == 1..MaxLive

----------------------------------------------------------------------------
(* src/reproca.ts : Reproca.call_method *)

\* What the three awaited/throwing operations of call_method can do:
\*   JSON.stringify(params) throws (TypeError on a cycle or a BigInt, or
\*   whatever a toJSON method throws); fetch rejects (TypeError on a network
\*   failure, anything else otherwise); or fetch resolves to a response with a
\*   status and a body text.
Bodies == {"{\"id\":5}", "5", "null", "", "<html>"}

RawOutcomes ==
    {[kind |-> "stringify_throws", exc |-> e, status |-> 0, body |-> ""] :
        e \in {"TypeError", "Error"}}
    \cup {[kind |-> "fetch_rejects", exc |-> e, status |-> 0, body |-> ""] :
        e \in {"TypeError", "AbortError"}}
    \cup {[kind |-> "response", exc |-> "none", status |-> s, body |-> b] :
        s \in 0..MaxStatus, b \in Bodies}

\* response.json(): the body text parsed as JSON, or a rejection (SyntaxError).
Decodable(body) == body \in {"{\"id\":5}", "5", "null"}

Decode(body) ==
    CASE body = "{\"id\":5}" -> "object{id:5}"
      [] body = "5" -> "number 5"
      [] body = "null" -> "null"

\* `e instanceof TypeError`
InstanceOfTypeError(exc) == exc = "TypeError"

\* A response.ok that knows status 200 only.
ResponseOk_Only200(status) == status = 200

\* response.ok
ResponseOk(status) == status >= 200 /\ status <= 299

ReturnOk(v) == [kind |-> "return", ok |-> v, err |-> "absent", exc |-> "none"]

ReturnErr(e) == [kind |-> "return", ok |-> "absent", err |-> e, exc |-> "none"]

Throw(e) == [kind |-> "throw", ok |-> "absent", err |-> "absent", exc |-> e]

\* A catch block that re-throws whatever it caught.
Catch_Rethrow(exc) == Throw(exc)

\* The catch block: a TypeError becomes { err: e }, anything else is re-thrown.
Catch(exc) == IF InstanceOfTypeError(exc) THEN ReturnErr("TypeError") ELSE Throw(exc)

\* The status branches after the try block.
ClassifyResponse(status, body) ==
    IF ResponseOk(status)
    THEN IF Decodable(body) THEN ReturnOk(Decode(body)) ELSE Throw("SyntaxError")
    ELSE IF status = 400 THEN ReturnErr("ReprocaProtocolError")
    ELSE IF status = 401 THEN ReturnErr("ReprocaUnauthorizedError")
    ELSE ReturnErr("ReprocaServerError")

call_method(o) ==
    IF o.kind \in {"stringify_throws", "fetch_rejects"}
    THEN Catch(o.exc)
    ELSE ClassifyResponse(o.status, o.body)

NoCall == [pc |-> "idle", raw |-> [kind |-> "none", exc |-> "none", status |-> 0, body |-> ""],
           res |-> [kind |-> "none", ok |-> "absent", err |-> "absent", exc |-> "none"]]

\* call_method is called; the exchange it starts will end in raw outcome o.
CallMethod(o) ==
    /\ rpc.pc = "idle"
    /\ rpc' = [pc |-> "pending", raw |-> o, res |-> NoCall.res]
    /\ UNCHANGED hookVars

\* The promise call_method returned settles.
CallSettles ==
    /\ rpc.pc = "pending"
    /\ rpc' = [rpc EXCEPT !.pc = "settled", !.res = call_method(rpc.raw)]
    /\ UNCHANGED hookVars

\* The caller has taken the result (or caught the exception): next call.
CallTaken ==
    /\ rpc.pc = "settled"
    /\ rpc' = NoCall
    /\ UNCHANGED hookVars

----------------------------------------------------------------------------
(* signalHooks.ts : useMethodSignal / useMethod *)

NoReload == [given |-> FALSE, ms |-> 0]

\* reload left out, {reload: 0} and {reload: 1000}
ReloadValues == {NoReload} \cup {[given |-> TRUE, ms |-> m] : m \in {0, 1000}}

\* A truthiness under which every number given counts, 0 included.
Truthy_ZeroCounts(r) == r.given

\* JavaScript truthiness of `reload`: undefined and 0 are falsy.
Truthy(r) == r.given /\ r.ms # 0

\* A published value is a result: its tag and the chain whose invocation
\* produced it.
Undefined == [tag |-> "undefined", by |-> 0]

\* A slot holds a retry chain: an invocation in flight, a resolved promise
\* whose then-callback is queued, or a pending timer.  cycle is the deps value
\* its closure was created under, must what the producer has fixed for the
\* invocation (see Expect), tag the result it resolved to.
Free == [phase |-> "free", cycle |-> 0, must |-> "any", tag |-> "none"]

Bump(n) == IF n < MaxCalls THEN n + 1 ELSE MaxCalls

FreeSlots == {s \in Slots : chains[s].phase = "free"}

NewSlot == CHOOSE s \in FreeSlots : \A t \in FreeSlots : s <= t

\* The raw outcomes the n-th call of the producer can end in.  The producer is
\* () => reproca.call_method(...), so its promise settles as call_method does.
SampleOutcomes == {o \in RawOutcomes : o.kind = "response" =>
                      /\ o.status \in {200, 400, 401, 500}
                      /\ o.body \in {"{\"id\":5}", "<html>"}}

IsErr(r) == r.kind = "return" /\ r.err # "absent"

IsOk(r) == r.kind = "return" /\ r.err = "absent"

\* What the producer fixes for its n-th call: "alwaysErr" resolves every call
\* to an err result, "errThenOk" the first to err and the second to ok, and
\* "any" fixes nothing.
Expect(n) ==
    CASE producer = "alwaysErr" -> "err"
      [] producer = "errThenOk" -> IF n = 1 THEN "err" ELSE IF n = 2 THEN "ok" ELSE "any"
      [] OTHER -> "any"

ProducerOutcomes(must) ==
    CASE must = "err" -> {o \in SampleOutcomes : IsErr(call_method(o))}
      [] must = "ok" -> {o \in SampleOutcomes : IsOk(call_method(o))}
      [] OTHER -> SampleOutcomes

\* A publication that keeps the first result published.
Publish_KeepFirst(cur, value) == IF cur.tag = "undefined" THEN value ELSE cur

\* `state.value = value` / `setState(value)`: the hook's state cell takes the
\* value, whatever it held and whether or not the component is still mounted
\* (what the framework renders of it afterwards is outside the hook).
Publish(cur, value) == value

\* A retry test that forgets the result: `if (reload)`.
ShouldRetry_IgnoreResult(r, value) == Truthy(r)

\* A retry test that forgets the option: `if (value.err)`.
ShouldRetry_IgnoreReload(r, value) == value.tag = "err"

\* `if (reload && value.err)`
ShouldRetry(r, value) == Truthy(r) /\ value.tag = "err"

\* A callback that never calls setTimeout.
AfterCallback_NoTimer(ch, value) == Free

\* What the then-callback leaves of its chain: `setTimeout(fetch, reload)`
\* keeps it alive as a pending timer, otherwise it ends.  The function the
\* callback returns (() => clearTimeout(id)) is the value of the promise
\* `then` returns, which nothing reads.
AfterCallback(ch, value) ==
    IF ShouldRetry(reload, value) THEN [ch EXCEPT !.phase = "timer"] ELSE Free

\* A fetch that drops the invocations still in flight before it starts its own.
fetch_CancelInFlight(before, s, cyc) ==
    /\ calls' = Bump(calls)
    /\ chains' = [t \in Slots |->
                    IF t = s
                    THEN [phase |-> "inflight", cycle |-> cyc,
                          must |-> Expect(Bump(calls)), tag |-> "none"]
                    ELSE IF before[t].phase = "inflight" THEN Free ELSE before[t]]

\* A fetch that calls method() only when reload is set.
fetch_OnlyWithReload(before, s, cyc) ==
    IF Truthy(reload)
    THEN /\ calls' = Bump(calls)
         /\ chains' = [before EXCEPT ![s] =
                         [phase |-> "inflight", cycle |-> cyc,
                          must |-> Expect(Bump(calls)), tag |-> "none"]]
    ELSE /\ calls' = calls
         /\ chains' = before

\* A fetch that calls method() twice, the second time in the next free slot.
fetch_Twice(before, s, cyc) ==
    /\ calls' = Bump(Bump(calls))
    /\ chains' = [t \in Slots |->
                    IF t = s \/ (before[t].phase = "free" /\
                                 \A u \in Slots \ {s} : before[u].phase = "free" => t <= u)
                    THEN [phase |-> "inflight", cycle |-> cyc,
                          must |-> Expect(Bump(calls)), tag |-> "none"]
                    ELSE before[t]]

\* fetch(): method() is called and `then` registers the callback.  The call
\* touches nothing but its own slot s of the chains before it.
fetch(before, s, cyc) ==
    /\ calls' = Bump(calls)
    /\ chains' = [before EXCEPT ![s] =
                    [phase |-> "inflight", cycle |-> cyc,
                     must |-> Expect(Bump(calls)), tag |-> "none"]]

\* A cleanup that clears the pending timer.
EffectCleanup_ClearTimers(ch) == IF ch.phase = "timer" THEN Free ELSE ch

\* The cleanup of useEffect(fetch, deps) is what fetch returns: undefined.
\* No cleanup is registered, so unmount and deps changes leave every
\* invocation and every timer as it is.
EffectCleanup(ch) == ch

AfterCleanup == [s \in Slots |-> EffectCleanup(chains[s])]

(* useMethod: the same hook over useState *)

\* `setState(value)`
setState(cur, value) == value

\* A useMethod that retries whether or not reload is set.
useMethod_ShouldRetry_IgnoreReload(r, value) == value.tag = "err"

\* `if (reload && value.err)` of useMethod
useMethod_ShouldRetry(r, value) == Truthy(r) /\ value.tag = "err"

\* The then-callback of useMethod: setTimeout(fetch, reload) or nothing.
useMethod_AfterCallback(ch, value) ==
    IF useMethod_ShouldRetry(reload, value) THEN [ch EXCEPT !.phase = "timer"] ELSE Free

\* fetch() of useMethod
useMethod_fetch(before, s, cyc) ==
    /\ hcalls' = Bump(hcalls)
    /\ hchains' = [before EXCEPT ![s] =
                     [phase |-> "inflight", cycle |-> cyc,
                      must |-> Expect(Bump(hcalls)), tag |-> "none"]]

\* The cleanup of useMethod's useEffect(fetch, deps): undefined as well.
useMethod_EffectCleanup(ch) == ch

useMethod_AfterCleanup == [s \in Slots |-> useMethod_EffectCleanup(hchains[s])]

useMethod_FreeSlots == {s \in Slots : hchains[s].phase = "free"}

useMethod_NewSlot ==
    CHOOSE s \in useMethod_FreeSlots : \A t \in useMethod_FreeSlots : s <= t

Init ==
    /\ reload \in ReloadValues
    /\ depsKind \in {"list", "none"}
    /\ producer \in {"any", "alwaysErr", "errThenOk"}
    /\ scope = "new"
    /\ cycle = 0
    /\ state = Undefined
    /\ chains = [s \in Slots |-> Free]
    /\ calls = 0
    /\ refetches = 0
    /\ hstate = Undefined
    /\ hchains = [s \in Slots |-> Free]
    /\ hcalls = 0
    /\ rpc = NoCall

\* First render and its effect: useEffect(fetch, deps) runs fetch.
Mount ==
    /\ scope = "new"
    /\ scope' = "mounted"
    /\ fetch(chains, NewSlot, cycle)
    /\ useMethod_fetch(hchains, useMethod_NewSlot, cycle)
    /\ UNCHANGED <<reload, depsKind, producer, cycle, state, hstate, refetches, rpc>>

\* A render with a changed deps array: cleanup of the old effect, then fetch.
DepsChange ==
    /\ scope = "mounted"
    /\ depsKind = "list"
    /\ cycle < MaxCycles
    /\ FreeSlots # {} /\ useMethod_FreeSlots # {}
    /\ cycle' = cycle + 1
    /\ fetch(AfterCleanup, NewSlot, cycle + 1)
    /\ useMethod_fetch(useMethod_AfterCleanup, useMethod_NewSlot, cycle + 1)
    /\ UNCHANGED <<reload, depsKind, producer, scope, state, hstate, refetches, rpc>>

\* A render with deps undefined: the effect is cleaned up and run again after
\* every render, as if deps had changed.
Rerender ==
    /\ scope = "mounted"
    /\ depsKind = "none"
    /\ cycle < MaxCycles
    /\ FreeSlots # {} /\ useMethod_FreeSlots # {}
    /\ cycle' = cycle + 1
    /\ fetch(AfterCleanup, NewSlot, cycle + 1)
    /\ useMethod_fetch(useMethod_AfterCleanup, useMethod_NewSlot, cycle + 1)
    /\ UNCHANGED <<reload, depsKind, producer, scope, state, hstate, refetches, rpc>>

\* The user calls the returned fetch.
Refetch ==
    /\ scope \in {"mounted", "torn"}
    /\ refetches < MaxRefetch
    /\ FreeSlots # {} /\ useMethod_FreeSlots # {}
    /\ refetches' = refetches + 1
    /\ fetch(chains, NewSlot, cycle)
    /\ useMethod_fetch(hchains, useMethod_NewSlot, cycle)
    /\ UNCHANGED <<reload, depsKind, producer, scope, cycle, state, hstate, rpc>>

\* Unmount: the effect's cleanup runs.
Teardown ==
    /\ scope = "mounted"
    /\ scope' = "torn"
    /\ chains' = AfterCleanup
    /\ hchains' = useMethod_AfterCleanup
    /\ UNCHANGED <<reload, depsKind, producer, cycle, state, calls, refetches,
                   hstate, hcalls, rpc>>

\* A `then` with a rejection handler that turns the rejection into an err.
Settle_RejectionIsErr(ch, o) ==
    [ch EXCEPT !.phase = "resolved",
               !.tag = IF call_method(o).kind = "return" /\ call_method(o).err = "absent"
                       THEN "ok" ELSE "err"]

\* What `method().then(callback)` makes of an invocation in flight when the
\* promise settles as call_method does on raw outcome o: fulfilled with a
\* result, the then-callback is queued; rejected, `then` (one argument) passes
\* the rejection on without calling the callback, and the chain is over.
Settle(ch, o) ==
    IF call_method(o).kind = "return"
    THEN [ch EXCEPT !.phase = "resolved",
                    !.tag = IF IsErr(call_method(o)) THEN "err" ELSE "ok"]
    ELSE Free

\* The promise method() returned in slot s settles.
Resolve(s, o) ==
    /\ chains[s].phase = "inflight"
    /\ o \in ProducerOutcomes(chains[s].must)
    /\ chains' = [chains EXCEPT ![s] = Settle(@, o)]
    /\ hchains' = IF hchains[s].phase = "inflight"
                  THEN [hchains EXCEPT ![s] = Settle(@, o)]
                  ELSE hchains
    /\ UNCHANGED <<reload, depsKind, producer, scope, cycle, state, calls, refetches,
                   hstate, hcalls, rpc>>

\* The then-callback of slot s runs.
Callback(s) ==
    /\ chains[s].phase = "resolved"
    /\ LET value == [tag |-> chains[s].tag, by |-> s] IN
        /\ state' = Publish(state, value)
        /\ chains' = [chains EXCEPT ![s] = AfterCallback(@, value)]
    /\ LET value == [tag |-> hchains[s].tag, by |-> s] IN
        IF hchains[s].phase = "resolved"
        THEN /\ hstate' = setState(hstate, value)
             /\ hchains' = [hchains EXCEPT ![s] = useMethod_AfterCallback(@, value)]
        ELSE UNCHANGED <<hstate, hchains>>
    /\ UNCHANGED <<reload, depsKind, producer, scope, cycle, calls, refetches, hcalls, rpc>>

\* The timer set by setTimeout(fetch, reload) fires: fetch of the same closure.
TimerFire(s) ==
    /\ chains[s].phase = "timer"
    /\ fetch(chains, s, chains[s].cycle)
    /\ IF hchains[s].phase = "timer"
       THEN useMethod_fetch(hchains, s, hchains[s].cycle)
       ELSE UNCHANGED <<hchains, hcalls>>
    /\ UNCHANGED <<reload, depsKind, producer, scope, cycle, state, hstate, refetches, rpc>>

Next ==
    \/ Mount
    \/ DepsChange
    \/ Rerender
    \/ Refetch
    \/ Teardown
    \/ \E s \in Slots : \E o \in SampleOutcomes : Resolve(s, o)
    \/ \E s \in Slots : Callback(s)
    \/ \E s \in Slots : TimerFire(s)

Spec == Init /\ [][Next]_vars

\* The event loop runs every queued microtask and fires every pending timer.
Fairness ==
    /\ \A s \in Slots : WF_vars(Callback(s))
    /\ \A s \in Slots : WF_vars(TimerFire(s))

FairSpec == Spec /\ Fairness

\* call_method on its own, called by a client that mounts no hook.
InitCall == Init /\ reload = NoReload /\ depsKind = "list" /\ producer = "any"

NextCall ==
    \/ \E o \in RawOutcomes : CallMethod(o)
    \/ CallSettles
    \/ CallTaken

SpecCall == InitCall /\ [][NextCall]_vars

----------------------------------------------------------------------------
(* Claims about the binding *)

Pending(s) == chains[s].phase = "timer"

InFlight(s) == chains[s].phase = "inflight"

Resolved(s) == chains[s].phase = "resolved"

\* A step in which the then-callback of slot s runs.
CallbackStep(s) == Resolved(s) /\ chains'[s] # chains[s]

\* A step in which the timer of slot s fires.
TimerStep(s) == Pending(s) /\ chains'[s].phase = "inflight"

\* A step in which slot s starts an invocation of the producer.
InvokeStep(s) == chains'[s].phase = "inflight" /\ chains'[s] # chains[s]

Configured == Truthy(reload)

\* The value the then-callback of slot s receives.
ValueOf(s) == [tag |-> chains[s].tag, by |-> s]

\* C1: when the scope is torn down, every pending retry timer is cleared, and
\* after the teardown no retry timer fires (so the producer is not invoked
\* again and the state is not published again by a retry).
C1_TeardownCancelsRetry ==
    [][/\ (scope = "mounted" /\ scope' = "torn") => \A s \in Slots : ~Pending(s)'
       /\ scope = "torn" => \A s \in Slots : ~TimerStep(s)]_vars

\* C2: a deps change leaves no retry timer of the old cycle pending, no timer
\* of an older cycle ever fires, and the change starts exactly one invocation.
C2_DepsChangeCancelsRetry ==
    [][depsKind = "list" =>
        /\ cycle' = cycle + 1 =>
            /\ \A s \in Slots : ~Pending(s)'
            /\ Cardinality({s \in Slots : InvokeStep(s)}) = 1
        /\ \A s \in Slots : chains[s].cycle < cycle => ~TimerStep(s)]_vars

\* C3: with reload configured and a producer that always resolves to err,
\* every err resolution is eventually followed by another invocation of the
\* producer by the same retry chain, before and after teardown alike.
C3_ErrIsRetried ==
    \A s \in Slots :
        (producer = "alwaysErr" /\ Configured /\ Resolved(s)) ~> InFlight(s)

C3_Witness ==
    /\ producer = "alwaysErr" /\ Configured
    /\ depsKind = "list" /\ cycle = 0 /\ refetches = 0
    /\ calls = MaxCalls
    /\ \E s \in Slots : InFlight(s)

C4_Pre ==
    /\ producer = "errThenOk" /\ Configured
    /\ depsKind = "list" /\ cycle = 0 /\ refetches = 0

Quiet == \A s \in Slots : chains[s] = Free

\* C4: with reload configured, fixed deps and no refetch, a producer that
\* resolves to err first and to ok second is invoked at most twice; a retry
\* timer is pending only between the two invocations; and once nothing is in
\* flight or pending the producer has been invoked exactly twice and the
\* state is the ok result.
C4_ErrThenOk ==
    C4_Pre =>
        /\ calls <= 2
        /\ \A s \in Slots : Pending(s) => calls = 1 /\ state.tag = "err"
        /\ (scope # "new" /\ Quiet) => calls = 2 /\ state.tag = "ok"

C4_Witness == C4_Pre /\ scope = "mounted" /\ Quiet /\ calls = 2 /\ state.tag = "ok"

\* C8: the then-callback publishes the result it received and leaves a retry
\* timer pending exactly when the result is err and reload is configured
\* (set and not 0); it starts nothing.  A firing timer starts exactly one
\* invocation, in its own chain, and publishes nothing.
C8_SettleAndRetry ==
    [][\A s \in Slots :
        /\ CallbackStep(s) =>
            /\ state' = ValueOf(s)
            /\ Pending(s)' <=> (chains[s].tag = "err" /\ Configured)
            /\ ~Pending(s)' => chains'[s] = Free
            /\ calls' = calls
            /\ \A t \in Slots \ {s} : chains'[t] = chains[t]
        /\ Pending(s)' => Configured /\ chains'[s].tag = "err"
        /\ TimerStep(s) =>
            /\ calls' = Bump(calls)
            /\ state' = state
            /\ \A t \in Slots \ {s} : chains'[t] = chains[t]]_vars

\* The invocation a fired timer started has settled err in its turn.
C8_Witness ==
    /\ refetches = 0 /\ cycle = 0 /\ depsKind = "list" /\ calls = 2
    /\ Pending(1) /\ state = ValueOf(1)

\* C9: refetch() is possible in every state of a mounted or torn-down hook (up
\* to the model's bounds); it starts exactly one invocation and leaves every
\* invocation in flight, every queued callback and every timer as it was;
\* and every callback overwrites the state with its own result, whatever
\* invocation published the state before.
C9_RefetchOverlaps ==
    [][/\ (scope \in {"mounted", "torn"} /\ refetches < MaxRefetch /\ FreeSlots # {})
            => ENABLED Refetch
       /\ refetches' = refetches + 1 =>
            /\ calls' = Bump(calls)
            /\ state' = state
            /\ \A s \in Slots : chains[s] # Free => chains'[s] = chains[s]
            /\ Cardinality({s \in Slots : InvokeStep(s)}) = 1
       /\ \A s \in Slots : CallbackStep(s) => state' = ValueOf(s)]_vars

\* The invocation refetch() started (slot 2) settled first, and the older one
\* (slot 1) is about to overwrite its result.
C9_Witness ==
    /\ refetches = 1 /\ calls = 2 /\ cycle = 0 /\ depsKind = "list"
    /\ state.by = 2
    /\ Resolved(1)

\* C10: every invocation whose promise resolves to a result eventually has its
\* then-callback run, and the callback publishes that result as the state.
C10_ResolutionPublished ==
    /\ \A s \in Slots : Resolved(s) ~> ~Resolved(s)
    /\ [][\A s \in Slots : CallbackStep(s) => state' = ValueOf(s)]_vars

C10_Witness ==
    /\ state.tag = "ok" /\ state.by = 2
    /\ \E s \in Slots : Resolved(s) /\ chains[s].tag = "err"

\* C11: the mount calls the producer exactly once, whatever deps and reload
\* are, and publishes nothing; the state is undefined before the mount and
\* leaves undefined only when a then-callback runs.
C11_MountInvokesOnce ==
    /\ [](scope = "new" => state = Undefined /\ calls = 0)
    /\ [][/\ (scope = "new" /\ scope' = "mounted") =>
                /\ calls' = 1
                /\ Cardinality({s \in Slots : InvokeStep(s)}) = 1
                /\ state' = Undefined
          /\ (state = Undefined /\ state' # Undefined) =>
                \E s \in Slots : CallbackStep(s)]_vars

C11_Witness ==
    /\ ~reload.given /\ depsKind = "none"
    /\ scope = "mounted" /\ calls = 1
    /\ Resolved(1) /\ state = Undefined

\* C12: the then-callback of an invocation whose cycle is over (the scope is
\* torn down, or deps have changed since its closure was made) writes no
\* state and schedules no retry timer.
C12_StaleResolutionDiscarded ==
    [][\A s \in Slots :
        (/\ CallbackStep(s)
         /\ refetches = 0
         /\ scope = "torn" \/ (depsKind = "list" /\ chains[s].cycle < cycle))
            => state' = state /\ ~Pending(s)']_vars

\* C13: at most one retry timer is pending.
C13_OneTimer == Cardinality({s \in Slots : Pending(s)}) <= 1

\* The invocations, queued callbacks and timers whose closure belongs to cycle c.
ChainsOf(c) == {s \in Slots : chains[s] # Free /\ chains[s].cycle = c}

\* C14: when refetch() is never called, each cycle owns at most one chain, and a
\* chain is one thing at a time: so at most one invocation of a cycle is in
\* flight, and no timer of the cycle is pending while one is.
C14_OneChainPerCycle ==
    refetches = 0 =>
        \A c \in 0..MaxCycles :
            /\ Cardinality(ChainsOf(c)) <= 1
            /\ Cardinality({s \in ChainsOf(c) : InFlight(s)}) <= 1
            /\ \A s, u \in ChainsOf(c) : ~(Pending(s) /\ InFlight(u))

\* The old cycle's timer is pending while the new cycle's invocation is in flight.
C14_Witness ==
    /\ refetches = 0 /\ depsKind = "list" /\ cycle = 1
    /\ Pending(1) /\ chains[1].cycle = 0
    /\ InFlight(2) /\ chains[2].cycle = 1

\* C15: a deps change leaves the state undefined and no retry pending, and the
\* then-callback of an invocation of an older cycle does not write the state.
C15_CycleStartsIdle ==
    [][depsKind = "list" =>
        /\ cycle' = cycle + 1 =>
            /\ state' = Undefined
            /\ \A s \in Slots : ~Pending(s)'
        /\ \A s \in Slots :
            (CallbackStep(s) /\ chains[s].cycle < cycle) => state' = state]_vars

\* C16: on the same events useMethod and useMethodSignal have called the
\* producer the same number of times, hold the same invocations and retry
\* timers, and have published the same state.
C16_VariantsAgree ==
    /\ hcalls = calls
    /\ hchains = chains
    /\ hstate = state

C16_Witness ==
    /\ refetches = 0 /\ cycle = 0 /\ scope = "torn"
    /\ hcalls = 2
    /\ hchains[1].phase = "timer"
    /\ hstate = [tag |-> "err", by |-> 1]

\* C17: when the producer's promise rejects (call_method throws: a 2xx body
\* that does not decode, an exception that is no TypeError) the state is not
\* written, no timer is scheduled whatever reload is, nothing is invoked, and
\* the chain is over.
C17_RejectionEndsChain ==
    [][\A s \in Slots : \A o \in SampleOutcomes :
        (call_method(o).kind = "throw" /\ Resolve(s, o)) =>
            /\ chains'[s] = Free
            /\ state' = state
            /\ calls' = calls
            /\ \A u \in Slots : ~(Pending(u)' /\ ~Pending(u))]_vars

\* The only invocation was rejected: nothing published, nothing pending.
C17_Witness ==
    /\ Configured /\ scope = "mounted"
    /\ refetches = 0 /\ cycle = 0 /\ calls = 1
    /\ Quiet /\ state = Undefined

LiveChains(ch) == Cardinality({s \in Slots : ch[s] # Free})

C18_Pre == producer = "alwaysErr" /\ Configured

\* C18: with reload configured and a producer that always resolves to err, the
\* number of live chains never decreases, and once mounted it is the number
\* of effect runs (1 + cycle) plus the number of refetch() calls.
C18_ChainsNeverEnd ==
    /\ []((C18_Pre /\ scope # "new") => LiveChains(chains) = 1 + cycle + refetches)
    /\ [][C18_Pre => LiveChains(chains') >= LiveChains(chains)]_vars

C18_Witness ==
    /\ C18_Pre /\ scope = "torn"
    /\ cycle = 1 /\ refetches = 0
    /\ calls = MaxCalls
    /\ LiveChains(chains) = 2

\* C19: with reload = 0 no retry timer is ever pending, and the producer is
\* called only by effect runs and refetch().
C19_ZeroIsNoReload ==
    (reload.given /\ reload.ms = 0) =>
        /\ \A s \in Slots : ~Pending(s)
        /\ calls <= 1 + cycle + refetches

C19_Witness ==
    /\ reload.given /\ reload.ms = 0
    /\ scope = "mounted" /\ calls = 1
    /\ Quiet /\ state.tag = "err"

----------------------------------------------------------------------------
(* Claims about call_method *)

Settled == rpc.pc = "settled"

NetworkFailure(o) == o.kind = "fetch_rejects" /\ o.exc = "TypeError"

Is2xx(o) == o.kind = "response" /\ o.status >= 200 /\ o.status < 300

ErrResult(r, e) == r.kind = "return" /\ r.err = e /\ r.ok = "absent"

ExactlyOne(r) == (r.ok # "absent") # (r.err # "absent")

\* C5: a network failure gives err (the TypeError fetch rejected with); a
\* 2xx status with a decodable body gives ok with the decoded value; 400
\* gives ReprocaProtocolError, 401 ReprocaUnauthorizedError and every other
\* status ReprocaServerError.
C5_Classification ==
    Settled =>
        LET o == rpc.raw
            r == rpc.res
        IN  /\ NetworkFailure(o) => ErrResult(r, "TypeError")
            /\ (Is2xx(o) /\ o.body \in {"{\"id\":5}", "5", "null"}) =>
                    /\ r.kind = "return" /\ r.err = "absent"
                    /\ o.body = "{\"id\":5}" => r.ok = "object{id:5}"
                    /\ o.body = "5" => r.ok = "number 5"
                    /\ o.body = "null" => r.ok = "null"
            /\ (o.kind = "response" /\ o.status = 400) => ErrResult(r, "ReprocaProtocolError")
            /\ (o.kind = "response" /\ o.status = 401) => ErrResult(r, "ReprocaUnauthorizedError")
            /\ (o.kind = "response" /\ ~Is2xx(o) /\ o.status \notin {400, 401}) =>
                    ErrResult(r, "ReprocaServerError")

C5_Witness ==
    /\ Settled
    /\ rpc.raw.kind = "response" /\ rpc.raw.status = 204 /\ rpc.raw.body = "5"
    /\ rpc.res.ok = "number 5"

\* C6 as stated: every network failure and every response, whatever its
\* status and body, ends in one result with exactly one of ok and err.
C6_TotalExclusive ==
    (Settled /\ (NetworkFailure(rpc.raw) \/ rpc.raw.kind = "response")) =>
        rpc.res.kind = "return" /\ ExactlyOne(rpc.res)

\* C6 as amended: every network failure, every non-2xx response and every 2xx
\* response with a decodable body ends in one result with exactly one of ok
\* and err; a 2xx response whose body does not decode ends in no result (the
\* call rejects); no result has both fields.
C6_TotalWhenDecodable ==
    Settled =>
        LET o == rpc.raw
            r == rpc.res
        IN  /\ (NetworkFailure(o) \/ (o.kind = "response" /\ ~Is2xx(o))
                  \/ (Is2xx(o) /\ o.body \in {"{\"id\":5}", "5", "null"}))
                    => r.kind = "return" /\ ExactlyOne(r)
            /\ (Is2xx(o) /\ o.body \in {"", "<html>"}) =>
                    r.kind = "throw" /\ r.ok = "absent" /\ r.err = "absent"
            /\ ~(r.ok # "absent" /\ r.err # "absent")

C6_Witness ==
    /\ Settled
    /\ Is2xx(rpc.raw) /\ rpc.raw.body = "<html>"
    /\ rpc.res.kind = "throw"

\* C7: an exception becomes an err result only when it is the network
\* failure; an exception of JSON.stringify(params), or any other exception of
\* fetch, is re-raised and gives no result.
C7_OnlyNetworkFailureIsErr ==
    Settled =>
        LET o == rpc.raw
            r == rpc.res
        IN  /\ (o.kind # "response" /\ r.kind = "return") => NetworkFailure(o)
            /\ (o.kind # "response" /\ ~NetworkFailure(o)) =>
                    r.kind = "throw" /\ r.exc = o.exc

====
